---------------------------- MODULE Spec2Model ----------------------------
(***************************************************************************)
(* A model of beer's exponential-family densities (beer/expfamily.py) and  *)
(* of the Bayesian mixture built on them (beer/models/mixture.py).         *)
(*                                                                         *)
(* Numbers.  Reals are exact rationals <<n, d>> (d > 0, lowest terms).     *)
(* Values that involve torch.lgamma, torch.log or the digamma function     *)
(* that autograd produces for lgamma are exact formal sums ("Sym") of      *)
(* rational multiples of the atoms one, lgamma(x), digamma(x), log(x):     *)
(* two equal formal sums denote equal reals.                               *)
(*                                                                         *)
(* Autograd.  A Variable is a heap object with a value, a flag telling     *)
(* whether it is a leaf that requires grad, the leaf it was computed from  *)
(* when it is not one, and its .grad buffer.  backward() accumulates IN    *)
(* PLACE into the .grad buffer of the leaves of the graph and leaves the   *)
(* .grad of a non-leaf Variable None.  A density's                         *)
(* _expected_sufficient_statistics is the object natural_params.grad: a    *)
(* reference to that buffer (or None), never a copy.                       *)
(* ta.Variable(x, requires_grad=True) is a new leaf with the value of x    *)
(* and no .grad yet; a plain Tensor is no Variable (isinstance tells them  *)
(* apart), the result of arithmetic on Variables is one.                   *)
(***************************************************************************)
EXTENDS Integers, Sequences, FiniteSets, TLC

(***************************************************************************)
(* Bounds of the model.                                                    *)
(***************************************************************************)
\* operations (updates, splits, assignments, queries of a mixture) in one behaviour
MaxOps == 2
\* observations in an inference batch
MaxObs == 2

(***************************************************************************)
(* Exact rational arithmetic.                                              *)
(***************************************************************************)
Abs(n) == IF n < 0 THEN -n ELSE n

RECURSIVE GCD(_, _)
GCD(a, b) == IF b = 0 THEN a ELSE GCD(b, a % b)

\* the rational n/d in lowest terms with a positive denominator
Q(n, d) ==
    LET g == GCD(Abs(n), Abs(d))
        s == IF d < 0 THEN -1 ELSE 1
    IN  <<(s * n) \div g, (s * d) \div g>>

R(n) == <<n, 1>>
Half == <<1, 2>>
RAdd(a, b) ==
    LET g == GCD(a[2], b[2])
    IN  Q(a[1] * (b[2] \div g) + b[1] * (a[2] \div g), (a[2] \div g) * b[2])
RNeg(a) == <<-a[1], a[2]>>
RSub(a, b) == RAdd(a, RNeg(b))
RMul(a, b) ==
    LET g == GCD(Abs(a[1]), b[2])
        h == GCD(Abs(b[1]), a[2])
    IN  IF g = 0 \/ h = 0
        THEN Q(a[1] * b[1], a[2] * b[2])
        ELSE Q((a[1] \div g) * (b[1] \div h), (a[2] \div h) * (b[2] \div g))
RDiv(a, b) == Q(a[1] * b[2], a[2] * b[1])
RLess(a, b) == a[1] * b[2] < b[1] * a[2]
RLeq(a, b) == a[1] * b[2] <= b[1] * a[2]

\* a function on 1..n as a tuple
Vec(f) == SubSeq(f, 1, Len(f))

\* the element of a one-element set: Only({e(x) : x \in {v}}) is e(v), v evaluated once
Only(S) == CHOOSE x \in S : TRUE

\* element-wise operations on vectors (1-d tensors) of rationals
VAdd(u, v) == Vec([i \in 1..Len(u) |-> RAdd(u[i], v[i])])
VSub(u, v) == Vec([i \in 1..Len(u) |-> RSub(u[i], v[i])])
VScale(c, v) == Vec([i \in 1..Len(v) |-> RMul(c, v[i])])
VAddConst(v, c) == Vec([i \in 1..Len(v) |-> RAdd(v[i], c)])

\* a + b for 1-d tensors: equal sizes, or one of size 1 that broadcasts
Broadcastable(a, b) == Len(a) = Len(b) \/ Len(a) = 1 \/ Len(b) = 1
BAdd(a, b) ==
    Vec([i \in 1..(IF Len(a) >= Len(b) THEN Len(a) ELSE Len(b)) |->
            RAdd(a[IF Len(a) = 1 THEN 1 ELSE i], b[IF Len(b) = 1 THEN 1 ELSE i])])
BSub(a, b) == BAdd(a, VScale(R(-1), b))

RECURSIVE VSum(_)
VSum(v) == IF v = <<>> THEN R(0) ELSE RAdd(Head(v), VSum(Tail(v)))

(***************************************************************************)
(* Formal sums: a set of <<atom, coefficient>> pairs, one per atom, no     *)
(* zero coefficient.  An atom is <<name, argument>>.                       *)
(***************************************************************************)
One == <<"one", R(1)>>
SZero == {}
SAtoms(s) == {p[1] : p \in s}
SCoef(s, a) == IF a \in SAtoms(s) THEN (CHOOSE p \in s : p[1] = a)[2] ELSE R(0)
SAdd(s, t) ==
    {p \in {<<a, RAdd(SCoef(s, a), SCoef(t, a))>> : a \in SAtoms(s) \cup SAtoms(t)} :
        p[2] # R(0)}
SScale(c, s) == IF c = R(0) THEN SZero ELSE {<<p[1], RMul(c, p[2])>> : p \in s}
SNeg(s) == SScale(R(-1), s)
SSub(s, t) == SAdd(s, SNeg(t))
SConst(r) == IF r = R(0) THEN SZero ELSE {<<One, r>>}

RECURSIVE SSum(_)
SSum(v) == IF v = <<>> THEN SZero ELSE SAdd(Head(v), SSum(Tail(v)))

\* u @ v for a vector u of formal sums and a vector v of rationals
SDot(u, v) == SSum(Vec([i \in 1..Len(u) |-> SScale(v[i], u[i])]))
SVAdd(u, v) == Vec([i \in 1..Len(u) |-> SAdd(u[i], v[i])])
SVZero(n) == Vec([i \in 1..n |-> SZero])


(***************************************************************************)
(* torch.lgamma, torch.log and the digamma function (the derivative of     *)
(* lgamma that autograd returns), as atoms.  lgamma(1) = lgamma(2) = 0 and *)
(* log(1) = 0 are the only values the code's inputs make rational.         *)
(***************************************************************************)
LGamma(x) == IF x \in {R(1), R(2)} THEN SZero ELSE {<<<<"lgamma", x>>, R(1)>>}
Digamma(x) == {<<<<"digamma", x>>, R(1)>>}
Log(x) == IF x = R(1) THEN SZero ELSE {<<<<"log", x>>, R(1)>>}

(***************************************************************************)
(* Log-normalizer functions and their gradients.                           *)
(***************************************************************************)
\* - torch.lgamma((natural_params + 1).sum()) + torch.lgamma(natural_params + 1).sum()
_dirichlet_log_norm(natural_params) ==
    SAdd(SNeg(LGamma(VSum(VAddConst(natural_params, R(1))))),
         SSum(Vec([i \in 1..Len(natural_params) |-> LGamma(RAdd(natural_params[i], R(1)))])))

\* what ta.backward leaves in natural_params.grad for the Dirichlet log-normalizer
dirichlet_grad_log_norm(natural_params) ==
    Vec([i \in 1..Len(natural_params) |->
        SAdd(SNeg(Digamma(VSum(VAddConst(natural_params, R(1))))),
             Digamma(RAdd(natural_params[i], R(1))))])

\* natural_params.view(4, -1): block b (1..4) of a vector of 4 * D entries
NGBlock(natural_params, b) ==
    LET D == Len(natural_params) \div 4
    IN  Vec([d \in 1..D |-> natural_params[(b - 1) * D + d]])

\* np1 - np2 ** 2 / np3, per dimension
NGResidual(natural_params, d) ==
    LET np1 == NGBlock(natural_params, 1)[d]
        np2 == NGBlock(natural_params, 2)[d]
        np3 == NGBlock(natural_params, 3)[d]
    IN  RSub(np1, RDiv(RMul(np2, np2), np3))

_normalgamma_log_norm(natural_params) ==
    LET D == Len(natural_params) \div 4
        np3 == NGBlock(natural_params, 3)
        np4 == NGBlock(natural_params, 4)
        lognorm(d) ==
            SAdd(SAdd(LGamma(RMul(Half, RAdd(np4[d], R(1)))),
                      SScale(RNeg(Half), Log(np3[d]))),
                 SScale(RMul(RNeg(Half), RAdd(np4[d], R(1))),
                        Log(RMul(Half, NGResidual(natural_params, d)))))
    IN  SSum(Vec([d \in 1..D |-> lognorm(d)]))

\* the gradient of _normalgamma_log_norm, block by block
normalgamma_grad_log_norm(natural_params) ==
    LET D == Len(natural_params) \div 4
        np1 == NGBlock(natural_params, 1)
        np2 == NGBlock(natural_params, 2)
        np3 == NGBlock(natural_params, 3)
        np4 == NGBlock(natural_params, 4)
        res(d) == NGResidual(natural_params, d)
        det(d) == RSub(RMul(np3[d], np1[d]), RMul(np2[d], np2[d]))
        grad1(d) == SConst(RNeg(RDiv(RAdd(np4[d], R(1)), RMul(R(2), res(d)))))
        grad2(d) == SConst(RDiv(RMul(np2[d], RAdd(np4[d], R(1))), det(d)))
        grad3(d) ==
            SConst(RSub(RNeg(RDiv(R(1), RMul(R(2), np3[d]))),
                        RDiv(RMul(RMul(np2[d], np2[d]), RAdd(np4[d], R(1))),
                             RMul(RMul(R(2), np3[d]), det(d)))))
        grad4(d) ==
            SAdd(SScale(Half, Digamma(RMul(Half, RAdd(np4[d], R(1))))),
                 SScale(RNeg(Half), Log(RMul(Half, res(d)))))
    IN  Vec([k \in 1..(4 * D) |->
            LET b == ((k - 1) \div D) + 1
                d == ((k - 1) % D) + 1
            IN  CASE b = 1 -> grad1(d)
                  [] b = 2 -> grad2(d)
                  [] b = 3 -> grad3(d)
                  [] OTHER -> grad4(d)])

(***************************************************************************)
(* Matrices of rationals, as sequences of rows.                            *)
(***************************************************************************)
\* v.view(D, D)
MatOf(v, D) == Vec([i \in 1..D |-> Vec([j \in 1..D |-> v[(i - 1) * D + j]])])

\* m.view(-1), row after row
Flat(m) == Vec([k \in 1..(Len(m) * Len(m[1])) |->
                   m[((k - 1) \div Len(m[1])) + 1][((k - 1) % Len(m[1])) + 1]])

\* torch.ger(u, v)
Ger(u, v) == Vec([i \in 1..Len(u) |-> Vec([j \in 1..Len(v) |-> RMul(u[i], v[j])])])

Transpose(m) == Vec([i \in 1..Len(m) |-> Vec([j \in 1..Len(m) |-> m[j][i]])])

\* m without row r and column c
Minor(m, r, c) ==
    Vec([i \in 1..(Len(m) - 1) |->
            Vec([j \in 1..(Len(m) - 1) |->
                    m[IF i < r THEN i ELSE i + 1][IF j < c THEN j ELSE j + 1]])])

\* torch.det, by expansion along the first row
RECURSIVE Det(_)
Det(m) ==
    IF m = <<>>
    THEN R(1)
    ELSE VSum(Vec([j \in 1..Len(m) |->
                      RMul(RMul(R(IF j % 2 = 1 THEN 1 ELSE -1), m[1][j]),
                           Det(Minor(m, 1, j)))]))

\* the inverse of a matrix whose determinant is not 0
Inverse(m) ==
    Vec([i \in 1..Len(m) |->
            Vec([j \in 1..Len(m) |->
                    RDiv(RMul(R(IF (i + j) % 2 = 0 THEN 1 ELSE -1),
                              Det(Minor(m, j, i))),
                         Det(m))])])

\* m @ v
MatVec(m, v) ==
    Vec([i \in 1..Len(m) |-> VSum(Vec([j \in 1..Len(v) |-> RMul(m[i][j], v[j])]))])

\* u @ v
Dot(u, v) == VSum(Vec([i \in 1..Len(u) |-> RMul(u[i], v[i])]))

\* a + b for 2-d tensors: in each dimension the sizes are equal or one of them is 1
\* (that side is repeated); any other pair of sizes raises RuntimeError
MBroadcastable(a, b) ==
    /\ Len(a) = Len(b) \/ Len(a) = 1 \/ Len(b) = 1
    /\ Len(a[1]) = Len(b[1]) \/ Len(a[1]) = 1 \/ Len(b[1]) = 1
MBAdd(a, b) ==
    Vec([i \in 1..(IF Len(a) >= Len(b) THEN Len(a) ELSE Len(b)) |->
            Vec([j \in 1..(IF Len(a[1]) >= Len(b[1]) THEN Len(a[1]) ELSE Len(b[1])) |->
                    RAdd(a[IF Len(a) = 1 THEN 1 ELSE i][IF Len(a[1]) = 1 THEN 1 ELSE j],
                         b[IF Len(b) = 1 THEN 1 ELSE i][IF Len(b[1]) = 1 THEN 1 ELSE j])])])

\* int(.5 * (-1 + math.sqrt(1 + 4 * n))): the largest D with D^2 + D <= n
NWDim(n) == CHOOSE D \in 0..n : D * D + D <= n /\ (D + 1) * (D + 1) + (D + 1) > n

\* [np1_1, ..., np1_D^2, np2_1, ..., np2_D, np3, np4]
_normalwishart_split_nparams(natural_params) ==
    Only({[np1 |-> MatOf(natural_params, D),
           np2 |-> SubSeq(natural_params, D * D + 1, Len(natural_params) - 2),
           np3 |-> natural_params[Len(natural_params) - 1],
           np4 |-> natural_params[Len(natural_params)],
           D |-> D]
          : D \in {NWDim(Len(natural_params) - 2)}})

\* np1 - torch.ger(np2, np2) / np3: D x D when np2 has D entries; when D is 1 and
\* np2 has more, the 1 x 1 np1 is broadcast to the size of the outer product
NWResidual(s) == MBAdd(s.np1, Ger(VScale(RNeg(RDiv(R(1), s.np3)), s.np2), s.np2))

\* torch.lgamma(.5 * (np4 + D + 1 - seq)) and its derivative, seq = 1..D
NWGammaArg(s, i) == RMul(Half, RSub(RAdd(RAdd(s.np4, R(s.D)), R(1)), R(i)))

_normalwishart_log_norm(natural_params) ==
    Only({SAdd(SAdd(SAdd(SScale(RMul(Half, RMul(RAdd(s.np4, R(s.D)), R(s.D))),
                                Log(R(2))),
                         SScale(RMul(RNeg(Half), R(s.D)), Log(s.np3))),
                    SScale(RMul(RNeg(Half), RAdd(s.np4, R(s.D))),
                           Log(Det(NWResidual(s))))),
               SSum(Vec([i \in 1..s.D |-> LGamma(NWGammaArg(s, i))])))
          : s \in {_normalwishart_split_nparams(natural_params)}})

\* the gradient of _normalwishart_log_norm: the blocks for np1, np2, np3 and np4
NWGrad(s, inv) ==
    Vec([k \in 1..(s.D * s.D) |->
            SConst(RMul(RMul(RNeg(Half), RAdd(s.np4, R(s.D))),
                        IF Len(inv) = s.D
                        THEN Flat(Transpose(inv))[k]
                        ELSE VSum(Flat(inv))))])
    \o Vec([i \in 1..Len(s.np2) |->
               SConst(RMul(RMul(Half, RAdd(s.np4, R(s.D))),
                           RDiv(RAdd(MatVec(inv, s.np2)[i],
                                     MatVec(Transpose(inv), s.np2)[i]),
                                s.np3)))])
    \o <<SConst(RSub(RNeg(RDiv(R(s.D), RMul(R(2), s.np3))),
                     RMul(RMul(Half, RAdd(s.np4, R(s.D))),
                          RDiv(Dot(s.np2, MatVec(inv, s.np2)),
                               RMul(s.np3, s.np3))))),
         SAdd(SAdd(SScale(RMul(Half, R(s.D)), Log(R(2))),
                   SScale(RNeg(Half), Log(Det(NWResidual(s))))),
              SSum(Vec([i \in 1..s.D |-> SScale(Half, Digamma(NWGammaArg(s, i)))])))>>

normalwishart_grad_log_norm(natural_params) ==
    Only({NWGrad(s, Inverse(NWResidual(s)))
          : s \in {_normalwishart_split_nparams(natural_params)}})

\* self._log_norm_fn(value): the function bound to the density
LogNormFn(fn, v) ==
    CASE fn = "dirichlet" -> _dirichlet_log_norm(v)
      [] fn = "normalgamma" -> _normalgamma_log_norm(v)
      [] OTHER -> _normalwishart_log_norm(v)

\* the gradient of the bound function at v
GradLogNormFn(fn, v) ==
    CASE fn = "dirichlet" -> dirichlet_grad_log_norm(v)
      [] fn = "normalgamma" -> normalgamma_grad_log_norm(v)
      [] OTHER -> normalwishart_grad_log_norm(v)

\* the exception the bound function raises at v: view(4, -1) of a vector whose size
\* is no multiple of 4, or np1 - torch.ger(np2, np2) / np3 for sizes that do not
\* broadcast (with fewer than 4 parameters D is 0 and there is no matrix at all)
LogNormErr(fn, v) ==
    CASE fn = "dirichlet" -> "None"
      [] fn = "normalgamma" -> IF Len(v) % 4 # 0 THEN "RuntimeError" ELSE "None"
      [] OTHER ->
             IF Len(v) < 4
             THEN "RuntimeError"
             ELSE IF NWDim(Len(v) - 2)
                         \notin {1, Len(v) - 2 - NWDim(Len(v) - 2) * NWDim(Len(v) - 2)}
             THEN "RuntimeError"
             ELSE "None"

\* a value that is no real number: torch.log of a number <= 0 (nan or -inf),
\* torch.lgamma or its derivative at 0 or at a negative integer (inf)
IllDefined(s) ==
    \E a \in SAtoms(s) :
        \/ a[1] = "log" /\ a[2][1] <= 0
        \/ a[1] \in {"lgamma", "digamma"} /\ a[2][1] <= 0 /\ a[2][2] = 1

(***************************************************************************)
(* Autograd Variables.  heap is the sequence of the Variables allocated so *)
(* far; a Variable is named by its index.                                  *)
(*   val      the tensor's value                                           *)
(*   leaf     a leaf created with requires_grad=True                       *)
(*   base     for a non-leaf: the leaf it was computed from, as            *)
(*            .5 * torch.stack([base, base], dim=-1).view(-1) (+ 1 - 1)    *)
(*   hasGrad  .grad is not None                                            *)
(*   grad     the .grad buffer                                             *)
(* A store st = [heap, dens] holds the Variables and the densities.        *)
(***************************************************************************)
NoneRef == 0

\* ta.Variable(value, requires_grad=True)
NewLeaf(value) ==
    [val |-> value, leaf |-> TRUE, base |-> NoneRef, hasGrad |-> FALSE, grad |-> <<>>]

\* the result of an operation on Variables that require grad
NewNode(value, b) ==
    [val |-> value, leaf |-> FALSE, base |-> b, hasGrad |-> FALSE, grad |-> <<>>]

\* torch.stack([v, v], dim=-1).view(-1)
StackView(v) == Vec([i \in 1..(2 * Len(v)) |-> v[(i + 1) \div 2]])

\* the gradient that flows back through .5 * torch.stack([x, x], dim=-1).view(-1)
HalfStackBackward(g) ==
    Vec([i \in 1..(Len(g) \div 2) |->
            SAdd(SScale(Half, g[2 * i - 1]), SScale(Half, g[2 * i]))])

\* AccumulateGrad: the first gradient becomes the buffer, later ones are added in place
AccumulateGrad(var, g) ==
    IF var.hasGrad
    THEN [var EXCEPT !.grad = SVAdd(@, g)]
    ELSE [var EXCEPT !.hasGrad = TRUE, !.grad = g]

\* ta.backward(log_norm_fn(heap[p])): the gradient lands on the leaf of the graph
Backward(h, p, fn) ==
    Only({IF h[p].leaf
          THEN [h EXCEPT ![p] = AccumulateGrad(@, g)]
          ELSE [h EXCEPT ![h[p].base] = AccumulateGrad(@, HalfStackBackward(g))]
          : g \in {GradLogNormFn(fn, h[p].val)}})

\* natural_params.grad.zero_(), when there is a buffer
ZeroGrad(h, p) ==
    IF h[p].hasGrad THEN [h EXCEPT ![p].grad = SVZero(Len(@))] ELSE h

\* _exp_stats_and_log_norm: returns (natural_params.grad, log_norm); stats is the
\* Variable whose .grad buffer is returned, NoneRef when .grad is None
_exp_stats_and_log_norm(h, natural_params, log_norm_fn) ==
    Only({[heap |-> h2,
           stats |-> IF h2[natural_params].hasGrad THEN natural_params ELSE NoneRef,
           log_norm |-> LogNormFn(log_norm_fn, h[natural_params].val)]
          : h2 \in {Backward(ZeroGrad(h, natural_params), natural_params,
                             log_norm_fn)}})

(***************************************************************************)
(* ExpFamilyDensity.  dens is the sequence of the densities created so     *)
(* far.  expected_sufficient_statistics holds the Variable whose .grad     *)
(* buffer the density refers to.                                           *)
(***************************************************************************)
\* ExpFamilyDensity.natural_params (setter) on density d
SetNaturalParams(st, d, value) ==
    Only({[heap |-> r.heap,
           dens |-> [st.dens EXCEPT ![d] =
                        [@ EXCEPT !.expected_sufficient_statistics = r.stats,
                                  !.log_norm = r.log_norm,
                                  !.natural_params = value]]]
          : r \in {_exp_stats_and_log_norm(st.heap, value, st.dens[d].log_norm_fn)}})

\* the exception _exp_stats_and_log_norm raises: the one of log_norm_fn, or the one
\* of ta.backward for a Variable that does not require grad
_exp_stats_and_log_normErr(h, natural_params, log_norm_fn) ==
    IF LogNormErr(log_norm_fn, h[natural_params].val) # "None"
    THEN LogNormErr(log_norm_fn, h[natural_params].val)
    ELSE IF ~h[natural_params].leaf /\ h[natural_params].base = NoneRef
    THEN "RuntimeError"
    ELSE "None"

\* the setter left by an exception: no field was written
Assigned_stored_first(st, d, value) ==
    IF _exp_stats_and_log_normErr(st.heap, value, st.dens[d].log_norm_fn) # "None"
    THEN [heap |-> st.heap, dens |-> [st.dens EXCEPT ![d].natural_params = value]]
    ELSE SetNaturalParams(st, d, value)

\* ExpFamilyDensity.natural_params (setter) on density d, for a value that may make
\* it raise: the fields are written after _exp_stats_and_log_norm returned
Assigned(st, d, value) ==
    IF _exp_stats_and_log_normErr(st.heap, value, st.dens[d].log_norm_fn) # "None"
    THEN st
    ELSE SetNaturalParams(st, d, value)

\* ExpFamilyDensity.__init__: the new density is the next one of the store
ExpFamilyDensity(st, natural_params, log_norm_fn) ==
    SetNaturalParams([heap |-> st.heap,
                      dens |-> Append(st.dens,
                                      [log_norm_fn |-> log_norm_fn,
                                       natural_params |-> NoneRef,
                                       expected_sufficient_statistics |-> NoneRef,
                                       log_norm |-> SZero])],
                     Len(st.dens) + 1, natural_params)

\* allocate a Variable: it is the next one of the heap
Alloc(st, var) == [heap |-> Append(st.heap, var), dens |-> st.dens]

\* the readers of a density: the tensors behind its three properties
NaturalParamsOf(st, d) == st.heap[st.dens[d].natural_params].val
HasStats(st, d) == st.dens[d].expected_sufficient_statistics # NoneRef
ExpectedStatsOf(st, d) == st.heap[st.dens[d].expected_sufficient_statistics].grad
LogNormOf(st, d) == st.dens[d].log_norm

\* a sign slip: F_p + F_q - grad_F_q @ (p - q)
_bregman_divergence_sum(F_p, F_q, grad_F_q, p, q) ==
    SSub(SAdd(F_p, F_q), SDot(grad_F_q, BSub(p, q)))

\* F_p - F_q - grad_F_q @ (p - q)
_bregman_divergence(F_p, F_q, grad_F_q, p, q) ==
    SSub(SSub(F_p, F_q), SDot(grad_F_q, BSub(p, q)))

\* the exception kl_divergence raises: model1 without statistics, p - q of sizes
\* that do not broadcast, or a dot product of vectors of different sizes
kl_divergenceErr(st, model1, model2) ==
    IF ~HasStats(st, model1)
    THEN "TypeError"
    ELSE IF \/ ~Broadcastable(NaturalParamsOf(st, model2), NaturalParamsOf(st, model1))
            \/ Len(ExpectedStatsOf(st, model1))
                   # Len(BSub(NaturalParamsOf(st, model2), NaturalParamsOf(st, model1)))
    THEN "RuntimeError"
    ELSE "None"

\* the two models taken in the other order
kl_divergence_swapped(st, model1, model2) ==
    _bregman_divergence(LogNormOf(st, model1), LogNormOf(st, model2),
                        ExpectedStatsOf(st, model2),
                        NaturalParamsOf(st, model1), NaturalParamsOf(st, model2))

kl_divergence(st, model1, model2) ==
    _bregman_divergence(LogNormOf(st, model2), LogNormOf(st, model1),
                        ExpectedStatsOf(st, model1),
                        NaturalParamsOf(st, model2), NaturalParamsOf(st, model1))

(***************************************************************************)
(* The family constructors.  An argument is a plain Tensor                 *)
(* (isVariable = FALSE) or a Variable computed from the leaf base.  Each   *)
(* returns the store with the new density as its last one.                 *)
(***************************************************************************)
Tensor(value) == [isVariable |-> FALSE, val |-> value, base |-> NoneRef]
VariableExpr(value, b) == [isVariable |-> TRUE, val |-> value, base |-> b]

\* the counts kept as the natural parameters
dirichlet_counts(st, prior_counts) ==
    ExpFamilyDensity(Alloc(st, IF prior_counts.isVariable
                               THEN NewNode(prior_counts.val, prior_counts.base)
                               ELSE NewLeaf(prior_counts.val)),
                     Len(st.heap) + 1, "dirichlet")

dirichlet(st, prior_counts) ==
    LET natural_params == VAddConst(prior_counts.val, R(-1))
    IN  ExpFamilyDensity(Alloc(st, IF prior_counts.isVariable
                                   THEN NewNode(natural_params, prior_counts.base)
                                   ELSE NewLeaf(natural_params)),
                         Len(st.heap) + 1, "dirichlet")

\* mean and precision are vectors of the same length, prior_counts a number
normalgamma(st, mean, precision, prior_counts) ==
    LET dim == Len(mean)
        n_mean == mean
        n_precision == Vec([i \in 1..dim |-> prior_counts])
        g_shapes == VScale(prior_counts, precision)
        g_rates == prior_counts
        natural_params ==
            Vec([i \in 1..dim |->
                    RAdd(RMul(n_precision[i], RMul(n_mean[i], n_mean[i])),
                         RMul(R(2), g_rates))])
            \o Vec([i \in 1..dim |-> RMul(n_precision[i], n_mean[i])])
            \o n_precision
            \o Vec([i \in 1..dim |-> RSub(RMul(R(2), g_shapes[i]), R(1))])
    IN  ExpFamilyDensity(Alloc(st, NewLeaf(natural_params)), Len(st.heap) + 1,
                         "normalgamma")

\* mean is a vector, precision a tensor [ndim, val] (val a matrix, as its rows, when
\* ndim is 2), prior_counts a number.  The vector handed to ta.Variable: the sum
\* prior_counts * torch.ger(mean, mean) + precision broadcasts
normalwishart_natural_params(mean, precision, prior_counts) ==
    Flat(MBAdd(Ger(VScale(prior_counts, mean), mean), precision.val))
    \o VScale(prior_counts, mean)
    \o <<prior_counts>>
    \o <<RSub(prior_counts, R(1))>>

\* the exception normalwishart raises: its own check, the sum of the two matrices,
\* or the log-normalizer evaluated when the density is built
normalwishartErr(mean, precision, prior_counts) ==
    IF precision.ndim # 2
    THEN "ValueError"
    ELSE IF ~MBroadcastable(Ger(mean, mean), precision.val)
    THEN "RuntimeError"
    ELSE LogNormErr("normalwishart",
                    normalwishart_natural_params(mean, precision, prior_counts))

normalwishart(st, mean, precision, prior_counts) ==
    ExpFamilyDensity(
        Alloc(st, NewLeaf(normalwishart_natural_params(mean, precision, prior_counts))),
        Len(st.heap) + 1, "normalwishart")

(***************************************************************************)
(* Mixture components.  A component is an object with a prior and a        *)
(* posterior density; the mixture calls its natural_grad_update and its    *)
(* split.                                                                   *)
(***************************************************************************)
\* create_component_func(**args): a component with Normal-Gamma prior and
\* posterior, the next two densities of the store
CreateComponent(st, args) ==
    normalgamma(normalgamma(st, args.mean, args.precision, args.prior_count),
                args.mean, args.precision, args.prior_count)
NewComponent(st) == [prior |-> Len(st.dens) + 1, posterior |-> Len(st.dens) + 2]

\* the statistics left unscaled
NaturalGradStepUnscaled(prior_np, posterior_np, stats, scale, lrate) ==
    BAdd(posterior_np, VScale(lrate, BSub(BAdd(prior_np, stats), posterior_np)))

\* a step that does not take the posterior off the gradient
NaturalGradStepNoPull(prior_np, posterior_np, stats, scale, lrate) ==
    BAdd(posterior_np, VScale(lrate, BAdd(prior_np, VScale(scale, stats))))

\* natural_params + lrate * (prior + scale * stats - natural_params)
NaturalGradStep(prior_np, posterior_np, stats, scale, lrate) ==
    BAdd(posterior_np,
         VScale(lrate, BSub(BAdd(prior_np, VScale(scale, stats)), posterior_np)))

\* can the expression of NaturalGradStep be evaluated (no size mismatch)
NaturalGradStepOk(prior_np, posterior_np, stats) ==
    /\ Broadcastable(prior_np, stats)
    /\ Broadcastable(IF Len(prior_np) >= Len(stats) THEN prior_np ELSE stats,
                     posterior_np)

\* the step assigned to the prior
PosteriorStepOnPrior(st, prior, posterior, stats, scale, lrate) ==
    SetNaturalParams(
        Alloc(st, NewLeaf(NaturalGradStep(NaturalParamsOf(st, prior),
                                          NaturalParamsOf(st, posterior),
                                          stats, scale, lrate))),
        prior, Len(st.heap) + 1)

\* the posterior of a natural gradient step: d.natural_params =
\* ta.Variable(d.natural_params + lrate * natural_grad, requires_grad=True)
PosteriorStep(st, prior, posterior, stats, scale, lrate) ==
    SetNaturalParams(
        Alloc(st, NewLeaf(NaturalGradStep(NaturalParamsOf(st, prior),
                                          NaturalParamsOf(st, posterior),
                                          stats, scale, lrate))),
        posterior, Len(st.heap) + 1)
PosteriorStepOk(st, prior, posterior, stats) ==
    NaturalGradStepOk(NaturalParamsOf(st, prior), NaturalParamsOf(st, posterior),
                      stats)

\* component.natural_grad_update(acc_stats, scale, lrate)
ComponentNaturalGradUpdate(st, c, acc_stats, scale, lrate) ==
    PosteriorStep(st, c.prior, c.posterior, acc_stats, scale, lrate)

\* component.split(): two sub-components, in order
ComponentSplit(c) ==
    <<[prior |-> c.prior, posterior |-> c.posterior],
      [prior |-> c.prior, posterior |-> c.posterior]>>

(***************************************************************************)
(* Mixture.  An operation returns [heap, dens, err, calls, mixture]: the   *)
(* store after it, the exception it raised ("None": it returned), the      *)
(* calls it made to component.natural_grad_update, and the mixture it      *)
(* worked on or built.                                                     *)
(***************************************************************************)
\* Mixture._prepare: the exception it raises
PrepareErr(st, components, posterior_weights) ==
    IF \/ \E i \in 1..Len(components) : ~HasStats(st, components[i].posterior)
       \/ ~HasStats(st, posterior_weights)
    THEN "TypeError"
    ELSE IF Len(ExpectedStatsOf(st, posterior_weights)) # Len(components)
    THEN "RuntimeError"
    ELSE "None"

\* Mixture._prepare: the matrix it stores
_prepare(st, components, posterior_weights) ==
    Vec([i \in 1..Len(components) |->
            Append(ExpectedStatsOf(st, components[i].posterior),
                   ExpectedStatsOf(st, posterior_weights)[i])])

\* Mixture.__init__
MixtureInit(st, prior_weights, components, posterior_weights) ==
    [heap |-> st.heap, dens |-> st.dens,
     err |-> PrepareErr(st, components, posterior_weights),
     calls |-> <<>>,
     mixture |-> [prior_weights |-> prior_weights,
                  components |-> components,
                  posterior_weights |-> posterior_weights,
                  np_params_matrix |->
                      IF PrepareErr(st, components, posterior_weights) = "None"
                      THEN _prepare(st, components, posterior_weights)
                      ELSE <<>>]]

\* [create_component_func(**args) for i in range(n)]: the store after it
RECURSIVE CreateComponents(_, _, _)
CreateComponents(st, args, n) ==
    IF n = 0 THEN st ELSE CreateComponent(CreateComponents(st, args, n - 1), args)

\* Mixture.create
create(st, prior_counts, args) ==
    Only({MixtureInit(s, Len(st.dens) + 1,
                      Vec([i \in 1..Len(prior_counts) |->
                              [prior |-> Len(st.dens) + 2 * i + 1,
                               posterior |-> Len(st.dens) + 2 * i + 2]]),
                      Len(st.dens) + 2)
          : s \in {CreateComponents(
                      dirichlet(dirichlet(st, Tensor(prior_counts)),
                                Tensor(prior_counts)),
                      args, Len(prior_counts))}})

\* the loop of natural_grad_update over the components, from component i on
RECURSIVE UpdateComponents(_, _, _, _, _, _, _)
UpdateComponents(st, log, m, comp_stats, scale, lrate, i) ==
    IF i > Len(m.components)
    THEN [heap |-> st.heap, dens |-> st.dens, err |-> "None", calls |-> log]
    ELSE IF i > Len(comp_stats)
    THEN [heap |-> st.heap, dens |-> st.dens, err |-> "IndexError", calls |-> log]
    ELSE IF ~PosteriorStepOk(st, m.components[i].prior, m.components[i].posterior,
                             comp_stats[i])
    THEN [heap |-> st.heap, dens |-> st.dens, err |-> "RuntimeError",
          calls |-> Append(log, [component |-> i, acc_stats |-> comp_stats[i],
                                 scale |-> scale, lrate |-> lrate])]
    ELSE UpdateComponents(
             ComponentNaturalGradUpdate(st, m.components[i], comp_stats[i], scale,
                                        lrate),
             Append(log, [component |-> i, acc_stats |-> comp_stats[i],
                          scale |-> scale, lrate |-> lrate]),
             m, comp_stats, scale, lrate, i + 1)

\* the end of natural_grad_update: the weights' step and self._prepare()
UpdateWeights(u, m, weights_stats, scale, lrate) ==
    IF ~PosteriorStepOk(u, m.prior_weights, m.posterior_weights, weights_stats)
    THEN [heap |-> u.heap, dens |-> u.dens, err |-> "RuntimeError",
          calls |-> u.calls, mixture |-> m]
    ELSE Only({[heap |-> r.heap, dens |-> r.dens,
                err |-> PrepareErr(r, m.components, m.posterior_weights),
                calls |-> u.calls,
                mixture |->
                    IF PrepareErr(r, m.components, m.posterior_weights) = "None"
                    THEN [m EXCEPT !.np_params_matrix =
                                       _prepare(r, m.components, m.posterior_weights)]
                    ELSE m]
               : r \in {PosteriorStep(u, m.prior_weights, m.posterior_weights,
                                      weights_stats, scale, lrate)}})

\* Mixture.natural_grad_update
natural_grad_update(st, m, acc_stats, scale, lrate) ==
    Only({IF u.err # "None"
          THEN [heap |-> u.heap, dens |-> u.dens, err |-> u.err, calls |-> u.calls,
                mixture |-> m]
          ELSE UpdateWeights(u, m, acc_stats[2], scale, lrate)
          : u \in {UpdateComponents(st, <<>>, m, acc_stats[1], scale, lrate, 1)}})

\* the divergences taken from the prior to the posterior
kl_div_prior_posterior(st, m) ==
    Only({[err |-> IF SelectSeq(errs, LAMBDA e : e # "None") = <<>>
                   THEN "None"
                   ELSE SelectSeq(errs, LAMBDA e : e # "None")[1],
           kl |-> IF SelectSeq(errs, LAMBDA e : e # "None") = <<>>
                  THEN SSum(Vec([i \in 1..Len(pairs) |->
                                    kl_divergence(st, pairs[i][1], pairs[i][2])]))
                  ELSE SZero]
          : <<pairs, errs>> \in
              {<<ps, Vec([i \in 1..Len(ps) |-> kl_divergenceErr(st, ps[i][1], ps[i][2])])>>
               : ps \in {<<<<m.prior_weights, m.posterior_weights>>>>
                          \o Vec([i \in 1..Len(m.components) |->
                                     <<m.components[i].prior,
                                       m.components[i].posterior>>])}}})

\* Mixture.kl_div_posterior_prior: kl_div(posterior, prior) of the weights, then +=
\* that of each component; [err, kl] is the exception raised and the value returned
kl_div_posterior_prior(st, m) ==
    Only({[err |-> IF SelectSeq(errs, LAMBDA e : e # "None") = <<>>
                   THEN "None"
                   ELSE SelectSeq(errs, LAMBDA e : e # "None")[1],
           kl |-> IF SelectSeq(errs, LAMBDA e : e # "None") = <<>>
                  THEN SSum(Vec([i \in 1..Len(pairs) |->
                                    kl_divergence(st, pairs[i][1], pairs[i][2])]))
                  ELSE SZero]
          : <<pairs, errs>> \in
              {<<ps, Vec([i \in 1..Len(ps) |-> kl_divergenceErr(st, ps[i][1], ps[i][2])])>>
               : ps \in {<<<<m.posterior_weights, m.prior_weights>>>>
                          \o Vec([i \in 1..Len(m.components) |->
                                     <<m.components[i].posterior,
                                       m.components[i].prior>>])}}})

\* list(chain.from_iterable([comp.split() for comp in self.components]))
RECURSIVE SplitComponents(_, _)
SplitComponents(components, i) ==
    IF i > Len(components)
    THEN <<>>
    ELSE ComponentSplit(components[i]) \o SplitComponents(components, i + 1)

\* the parameters stacked but not halved
SplitCountsWhole(st, d) ==
    VariableExpr(VAddConst(StackView(NaturalParamsOf(st, d)), R(1)),
                 st.dens[d].natural_params)

\* prior_np + 1 for prior_np = .5 * torch.stack([np, np], dim=-1).view(-1), np the
\* natural parameters of density d
SplitCounts(st, d) ==
    VariableExpr(VAddConst(VScale(Half, StackView(NaturalParamsOf(st, d))), R(1)),
                 st.dens[d].natural_params)

\* Mixture.split: the two new weight densities are the next two of the store
split(st, m) ==
    Only({MixtureInit(s, Len(st.dens) + 1, SplitComponents(m.components, 1),
                      Len(st.dens) + 2)
          : s \in {dirichlet(dirichlet(st, SplitCounts(st, m.prior_weights)),
                             SplitCounts(st, m.posterior_weights))}})

(***************************************************************************)
(* Inference.  The entries of the cached matrix are logarithms of positive *)
(* rationals and the statistics of the data are integers, so that          *)
(* torch.exp and torch.log are computed exactly: exp of a sum of           *)
(* n * log(q) is the product of the q^n.                                   *)
(***************************************************************************)
\* q^n for an integer n
RECURSIVE RPow(_, _)
RPow(q, n) ==
    IF n = 0 THEN R(1)
    ELSE IF n < 0 THEN RDiv(R(1), RPow(q, -n))
    ELSE RMul(q, RPow(q, n - 1))

\* torch.exp of a sum of integer multiples of logarithms
RECURSIVE ExpOfAtoms(_, _)
ExpOfAtoms(s, atoms) ==
    IF atoms = {}
    THEN R(1)
    ELSE LET a == CHOOSE x \in atoms : TRUE
         IN  RMul(RPow(a[2], SCoef(s, a)[1]), ExpOfAtoms(s, atoms \ {a}))
Exp(s) == ExpOfAtoms(s, SAtoms(s))

\* math.log(2 * math.pi)
Log2Pi == {<<<<"log2pi", R(1)>>, R(1)>>}

\* the entry of the row that exceeds no other
RowMin(row) ==
    row[CHOOSE k \in 1..Len(row) : \A j \in 1..Len(row) : RLeq(Exp(row[k]), Exp(row[j]))]

\* torch.max(row): the entry of the row that no other exceeds
RowMax(row) ==
    row[CHOOSE k \in 1..Len(row) : \A j \in 1..Len(row) : RLeq(Exp(row[j]), Exp(row[k]))]

\* a variant that forgets the sum: the maximum alone
_logsumexp_max(tensor) == Vec([n \in 1..Len(tensor) |-> RowMax(tensor[n])])

\* s + (tensor - s).exp().sum(dim=1, keepdim=True).log(), row by row
_logsumexp(tensor) ==
    Vec([n \in 1..Len(tensor) |->
            Only({SAdd(m, Log(VSum(Vec([k \in 1..Len(tensor[n]) |->
                                           Exp(SSub(tensor[n][k], m))]))))
                  : m \in {RowMax(tensor[n])}})])

\* component.sufficient_statistics(X) of the Normal with diagonal covariance:
\* [X**2, X, ones_like(X), ones_like(X)], four blocks of as many columns as X has
ComponentSufficientStatistics(X) ==
    Vec([n \in 1..Len(X) |->
            Vec([j \in 1..(4 * Len(X[n])) |->
                    CASE j <= Len(X[n]) -> X[n][j] * X[n][j]
                      [] j <= 2 * Len(X[n]) -> X[n][j - Len(X[n])]
                      [] OTHER -> 1])])

\* component.sufficient_statistics_from_mean_var(mean, var): [mean**2 + var, mean, 1, 1]
ComponentSufficientStatisticsFromMeanVar(mean, var) ==
    Vec([n \in 1..Len(mean) |->
            <<mean[n][1] * mean[n][1] + var[n][1], mean[n][1], 1, 1>>])

\* Mixture.sufficient_statistics: the component's statistics and a column of ones
sufficient_statistics(X) ==
    Vec([n \in 1..Len(X) |-> Append(ComponentSufficientStatistics(X)[n], 1)])

\* T @ self._np_params_matrix.t()
PerComponentExpLlh(T, matrix) ==
    Vec([n \in 1..Len(T) |->
            Vec([k \in 1..Len(matrix) |->
                    SSum(Vec([j \in 1..Len(T[n]) |->
                                 SScale(R(T[n][j]), matrix[k][j])]))])])

\* torch.exp(per_component_exp_llh - exp_llh)
Responsibilities(per_component_exp_llh, exp_llh) ==
    Vec([n \in 1..Len(per_component_exp_llh) |->
            Vec([k \in 1..Len(per_component_exp_llh[n]) |->
                    Exp(SSub(per_component_exp_llh[n][k], exp_llh[n]))])])

\* the statistics with their column of ones: resps.t() @ T, resps.sum(dim=0)
AccumulateStatsWhole(resps, T, K) ==
    <<Vec([k \in 1..K |->
              Vec([j \in 1..Len(T[1]) |->
                      VSum(Vec([n \in 1..Len(T) |-> RMul(resps[n][k], R(T[n][j]))]))])]),
      Vec([k \in 1..K |-> VSum(Vec([n \in 1..Len(T) |-> resps[n][k]]))])>>

\* resps.t() @ T[:, :-1], resps.sum(dim=0)
AccumulateStats(resps, T, K) ==
    <<Vec([k \in 1..K |->
              Vec([j \in 1..(Len(T[1]) - 1) |->
                      VSum(Vec([n \in 1..Len(T) |-> RMul(resps[n][k], R(T[n][j]))]))])]),
      Vec([k \in 1..K |-> VSum(Vec([n \in 1..Len(T) |-> resps[n][k]]))])>>

\* the inference both methods share, on the statistics T with D columns of data
Infer(m, T, D) ==
    Only({[exp_llh |-> Vec([n \in 1..Len(T) |->
                               SSub(r.lse[n], SScale(RMul(Half, R(D)), Log2Pi))]),
           resps |-> r.resps,
           acc_stats |-> AccumulateStats(r.resps, T, Len(m.np_params_matrix))]
          : r \in {[lse |-> lse, resps |-> Responsibilities(llh, lse)]
                   : <<llh, lse>> \in
                       {<<l, _logsumexp(l)>>
                        : l \in {PerComponentExpLlh(T, m.np_params_matrix)}}}})

\* the column of ones forgotten
exp_llhErr_no_ones(m, X) ==
    IF Len(ComponentSufficientStatistics(X)[1]) # Len(m.np_params_matrix[1])
    THEN "RuntimeError"
    ELSE "None"

\* the exception Mixture.exp_llh raises: T @ self._np_params_matrix.t() for
\* statistics T that have not as many columns as the cached matrix
exp_llhErr(m, X) ==
    IF Len(sufficient_statistics(X)[1]) # Len(m.np_params_matrix[1])
    THEN "RuntimeError"
    ELSE "None"

\* Mixture.exp_llh(X, accumulate)
exp_llh(m, X, accumulate) ==
    Only({[exp_llh |-> r.exp_llh, resps |-> r.resps,
           acc_stats |-> IF accumulate THEN r.acc_stats ELSE <<>>]
          : r \in {Infer(m, sufficient_statistics(X), Len(X[1]))}})

\* Mixture.expected_natural_params(mean, var): the responsibilities times the
\* components' expected natural parameters (here the rows of the matrix without
\* the weight), and the accumulated statistics
expected_natural_params(m, mean, var) ==
    Only({[exp_llh |-> r.lse, resps |-> r.resps,
           acc_stats |-> AccumulateStats(r.resps, T, Len(m.np_params_matrix)),
           retval |->
               Vec([n \in 1..Len(T) |->
                       Vec([j \in 1..(Len(T[n]) - 1) |->
                               SSum(Vec([k \in 1..Len(m.np_params_matrix) |->
                                            SScale(r.resps[n][k],
                                                   m.np_params_matrix[k][j])]))])])]
          : <<T, r>> \in
              {<<t, Only({[lse |-> lse, resps |-> Responsibilities(llh, lse)]
                          : <<llh, lse>> \in
                              {<<l, _logsumexp(l)>>
                               : l \in {PerComponentExpLlh(t, m.np_params_matrix)}}})>>
               : t \in {Vec([n \in 1..Len(mean) |->
                               Append(ComponentSufficientStatisticsFromMeanVar(
                                          mean, var)[n], 1)])}}})

(***************************************************************************)
(* The state.                                                              *)
(*   heap, dens  the Variables and the densities allocated so far          *)
(*   mix         the Mixture the caller holds                              *)
(*   out         what the last operation returned or raised                *)
(*   last        the last operation, its arguments and the state before it *)
(*   calls       the calls to component.natural_grad_update it made        *)
(*   ops         the number of mutating operations so far                  *)
(*   made        for each density built by a family constructor: the       *)
(*               family, the hyperparameters, and whether its parameters   *)
(*               are still those it was built with                         *)
(*   pc          where an assignment to natural_params in progress stands  *)
(*   seen        what a consumer last read from a density                  *)
(***************************************************************************)
VARIABLES heap, dens, mix, out, last, calls, ops, made, pc, seen

vars == <<heap, dens, mix, out, last, calls, ops, made, pc, seen>>

NotSeen == [natural_params |-> <<>>, log_norm |-> SZero,
            expected_sufficient_statistics |-> <<>>]

NoMixture ==
    [prior_weights |-> NoneRef, components |-> <<>>, posterior_weights |-> NoneRef,
     np_params_matrix |-> <<>>]

NoArgs == [prior_counts |-> <<>>, acc_stats |-> <<<<>>, <<>>>>, scale |-> R(0),
           lrate |-> R(0)]

EmptyStore == [heap |-> <<>>, dens |-> <<>>]

\* the store the program is in
Store == [heap |-> heap, dens |-> dens]

\* the inputs of Mixture.create
PriorCounts == {<<R(3)>>, <<R(1), R(1)>>, <<R(2), R(3)>>}
ComponentArgs ==
    {[mean |-> <<R(0)>>, precision |-> <<R(1)>>, prior_count |-> R(1)],
     [mean |-> <<R(1)>>, precision |-> <<R(1)>>, prior_count |-> R(2)]}

\* accumulated statistics of observations x = 2 (statistics [x**2, x, 1, 1]) with
\* responsibility mass m for a component
StatRow(m) == <<RMul(R(4), m), RMul(R(2), m), m, m>>
Masses(K) ==
    {Vec([i \in 1..K |-> R(1)]), Vec([i \in 1..K |-> IF i = 1 THEN R(2) ELSE R(0)])}
WellFormedAccStats(K) ==
    {<<Vec([i \in 1..K |-> StatRow(mass[i])]), mass>> : mass \in Masses(K)}
\* the same with one weight statistic too many, one row too few, or a single
\* weight statistic
MalformedAccStats(K) ==
    LET mass == Vec([i \in 1..K |-> R(1)])
        rows == Vec([i \in 1..K |-> StatRow(R(1))])
    IN  {<<rows, Append(mass, R(1))>>, <<SubSeq(rows, 1, K - 1), mass>>,
         <<rows, <<R(1)>>>>}
AccStats(K) == WellFormedAccStats(K) \cup MalformedAccStats(K)

\* <<scale, lrate>>
Rates == {<<R(1), R(0)>>, <<R(2), Half>>, <<R(1), R(1)>>}

Init ==
    \E prior_counts \in PriorCounts, args \in ComponentArgs :
        \E c \in {create(EmptyStore, prior_counts, args)} :
            /\ heap = c.heap
            /\ dens = c.dens
            /\ mix = c.mixture
            /\ out = [op |-> "create", err |-> c.err, kl |-> SZero,
                      mixture |-> NoMixture]
            /\ last = [op |-> "create",
                       args |-> [NoArgs EXCEPT !.prior_counts = prior_counts],
                       pre |-> [heap |-> <<>>, dens |-> <<>>, mix |-> NoMixture]]
            /\ calls = <<>>
            /\ ops = 0
            /\ made = <<>>
            /\ pc = "idle"
            /\ seen = NotSeen

Pre == [heap |-> heap, dens |-> dens, mix |-> mix]

NaturalGradUpdate ==
    /\ ops < MaxOps
    /\ \E acc_stats \in AccStats(Len(mix.components)), rate \in Rates :
          \E r \in {natural_grad_update(Store, mix, acc_stats, rate[1], rate[2])} :
              /\ heap' = r.heap
              /\ dens' = r.dens
              /\ mix' = r.mixture
              /\ calls' = r.calls
              /\ out' = [op |-> "natural_grad_update", err |-> r.err, kl |-> SZero,
                         mixture |-> NoMixture,
                         \* the tuple of the caller after the call: its tensors are
                         \* read (comp_stats[i], scale * weights_stats), never written
                         acc_stats |-> acc_stats]
              /\ last' = [op |-> "natural_grad_update",
                          args |-> [NoArgs EXCEPT !.acc_stats = acc_stats,
                                                  !.scale = rate[1],
                                                  !.lrate = rate[2]],
                          pre |-> Pre]
    /\ ops' = ops + 1
    /\ UNCHANGED <<made, pc, seen>>

Split ==
    /\ ops < MaxOps
    /\ \E r \in {split(Store, mix)} :
           /\ heap' = r.heap
           /\ dens' = r.dens
           /\ out' = [op |-> "split", err |-> r.err, kl |-> SZero,
                      mixture |-> IF r.err = "None" THEN r.mixture ELSE NoMixture]
    /\ last' = [op |-> "split", args |-> NoArgs, pre |-> Pre]
    /\ ops' = ops + 1
    /\ UNCHANGED <<mix, calls, made, pc, seen>>

\* m.kl_div_posterior_prior()
KlDivPosteriorPrior ==
    /\ ops < MaxOps
    /\ \E r \in {kl_div_posterior_prior(Store, mix)} :
           out' = [op |-> "kl_div_posterior_prior", err |-> r.err, kl |-> r.kl,
                   mixture |-> NoMixture]
    /\ last' = [op |-> "kl_div_posterior_prior", args |-> NoArgs, pre |-> Pre]
    /\ ops' = ops + 1
    /\ UNCHANGED <<heap, dens, mix, calls, made, pc, seen>>

\* m.exp_llh(X, accumulate), for one observation of 1 or of 2 dimensions, up to the
\* per-component expected log-likelihood T @ self._np_params_matrix.t(); its
\* row-wise log-sum-exp is evaluated on matrices of logarithms in SpecInfer
MixtureExpLlh ==
    /\ ops < MaxOps
    /\ \E X \in {<<<<2>>>>, <<<<2, 0>>>>}, accumulate \in BOOLEAN :
         /\ out' = [op |-> "exp_llh", err |-> exp_llhErr(mix, X), kl |-> SZero,
                    mixture |-> NoMixture,
                    per_component_exp_llh |->
                        IF exp_llhErr(mix, X) = "None"
                        THEN PerComponentExpLlh(sufficient_statistics(X),
                                                mix.np_params_matrix)
                        ELSE <<>>]
         /\ last' = [op |-> "exp_llh", args |-> [X |-> X, accumulate |-> accumulate],
                     pre |-> Pre]
    /\ ops' = ops + 1
    /\ UNCHANGED <<heap, dens, mix, calls, made, pc, seen>>

Next == NaturalGradUpdate \/ Split \/ KlDivPosteriorPrior \/ MixtureExpLlh

Spec == Init /\ [][Next]_vars

(***************************************************************************)
(* Densities on their own: up to two densities of one family are built by  *)
(* the family's constructor, assigned new natural parameters and compared  *)
(* with kl_divergence.                                                     *)
(***************************************************************************)
Families == {"dirichlet", "normalgamma", "normalwishart"}

\* the hyperparameters the constructors are called with (plain Tensors)
Hyper(family) ==
    CASE family = "dirichlet" ->
             {[prior_counts |-> <<R(1), R(1), R(1)>>], [prior_counts |-> <<R(2), R(3)>>],
              [prior_counts |-> <<R(1), R(2)>>]}
      [] family = "normalgamma" ->
             {[mean |-> <<R(0)>>, precision |-> <<R(1)>>, prior_counts |-> R(1)],
              [mean |-> <<R(1)>>, precision |-> <<R(2)>>, prior_counts |-> R(2)]}
      [] OTHER ->
             {[mean |-> <<R(1)>>, precision |-> [ndim |-> 2, val |-> <<<<R(2)>>>>],
               prior_counts |-> R(2)],
              [mean |-> <<R(1), R(0)>>,
               precision |-> [ndim |-> 2, val |-> <<<<R(2), R(1)>>, <<R(1), R(3)>>>>],
               prior_counts |-> R(2)],
              [mean |-> <<R(1)>>, precision |-> [ndim |-> 1, val |-> <<R(2)>>],
               prior_counts |-> R(2)]}

\* the exception the constructor raises
ConstructErr(family, hyper) ==
    IF family = "normalwishart"
    THEN normalwishartErr(hyper.mean, hyper.precision, hyper.prior_counts)
    ELSE "None"

\* the store after the constructor returned
Constructed(st, family, hyper) ==
    CASE family = "dirichlet" -> dirichlet(st, Tensor(hyper.prior_counts))
      [] family = "normalgamma" ->
             normalgamma(st, hyper.mean, hyper.precision, hyper.prior_counts)
      [] OTHER -> normalwishart(st, hyper.mean, hyper.precision, hyper.prior_counts)

\* a valid vector of n natural parameters of the family, to assign
AssignValue(family, n) ==
    CASE family = "dirichlet" -> Vec([i \in 1..n |-> R(i)])
      [] family = "normalgamma" -> <<R(3), R(1), R(1), R(2)>>
      [] n = 4 -> <<R(3), R(1), R(1), R(2)>>
      [] OTHER -> <<R(3), R(0), R(0), R(3), R(1), R(1), R(1), R(2)>>

NoResult(op, err) == [op |-> op, err |-> err, kl |-> SZero, mixture |-> NoMixture]

InitDensity ==
    /\ heap = <<>>
    /\ dens = <<>>
    /\ mix = NoMixture
    /\ out = NoResult("none", "None")
    /\ last = [op |-> "none", args |-> NoArgs, pre |-> [heap |-> <<>>, dens |-> <<>>]]
    /\ calls = <<>>
    /\ ops = 0
    /\ made = <<>>
    /\ pc = "idle"
    /\ seen = NotSeen

\* d = dirichlet(...), normalgamma(...) or normalwishart(...)
Construct ==
    /\ Len(dens) < 2
    /\ \E family \in Families :
         /\ dens # <<>> => family = made[1].family
         /\ \E hyper \in Hyper(family) :
              /\ last' = [op |-> family, args |-> hyper, pre |-> Store]
              /\ out' = NoResult(family, ConstructErr(family, hyper))
              /\ IF ConstructErr(family, hyper) = "None"
                 THEN \E r \in {Constructed(Store, family, hyper)} :
                          /\ heap' = r.heap
                          /\ dens' = r.dens
                          /\ made' = Append(made, [family |-> family, hyper |-> hyper,
                                                   fresh |-> TRUE])
                 ELSE UNCHANGED <<heap, dens, made>>
    /\ UNCHANGED <<mix, calls, ops, pc, seen>>

\* d.natural_params = ta.Variable(value, requires_grad=True)
Assign ==
    /\ ops < MaxOps
    /\ \E d \in 1..Len(dens) :
         \E value \in {AssignValue(made[d].family, Len(NaturalParamsOf(Store, d)))} :
           \E r \in {SetNaturalParams(Alloc(Store, NewLeaf(value)), d, Len(heap) + 1)} :
              /\ heap' = r.heap
              /\ dens' = r.dens
              /\ made' = [made EXCEPT ![d].fresh = FALSE]
              /\ last' = [op |-> "assign", args |-> [d |-> d, value |-> value],
                          pre |-> Store]
    /\ out' = NoResult("assign", "None")
    /\ ops' = ops + 1
    /\ UNCHANGED <<mix, calls, pc, seen>>

\* d.natural_params = d.natural_params: the Variable the density already holds
Reassign ==
    /\ ops < MaxOps
    /\ \E d \in 1..Len(dens) :
         \E r \in {SetNaturalParams(Store, d, dens[d].natural_params)} :
            /\ heap' = r.heap
            /\ dens' = r.dens
            /\ last' = [op |-> "reassign",
                        args |-> [d |-> d, value |-> NaturalParamsOf(Store, d)],
                        pre |-> Store]
    /\ out' = NoResult("reassign", "None")
    /\ ops' = ops + 1
    /\ UNCHANGED <<mix, calls, made, pc, seen>>

\* kl_divergence(model1, model2)
KlDivergence ==
    /\ \E model1 \in 1..Len(dens), model2 \in 1..Len(dens) :
         /\ last' = [op |-> "kl_divergence",
                     args |-> [model1 |-> model1, model2 |-> model2], pre |-> Store]
         /\ out' = [op |-> "kl_divergence",
                    err |-> kl_divergenceErr(Store, model1, model2),
                    kl |-> IF kl_divergenceErr(Store, model1, model2) = "None"
                           THEN kl_divergence(Store, model1, model2)
                           ELSE SZero,
                    mixture |-> NoMixture]
    /\ UNCHANGED <<heap, dens, mix, calls, ops, made, pc, seen>>

NextDensity == Construct \/ Assign \/ Reassign \/ KlDivergence

SpecDensity == InitDensity /\ [][NextDensity]_vars

(***************************************************************************)
(* One density handed arguments that are not valid: hyperparameters of     *)
(* inconsistent shapes, natural parameters of a wrong size or outside the  *)
(* domain of the log-normalizer, Variables that do not require grad.       *)
(***************************************************************************)
\* Normal-Wishart hyperparameters of inconsistent shapes: a 1 x 2, a 3 x 3 and a
\* 2 x 3 precision for a mean of 1, 1 and 2 entries
MisshapenHyper ==
    {[mean |-> <<R(0)>>, precision |-> [ndim |-> 2, val |-> <<<<R(1), R(2)>>>>],
      prior_counts |-> R(2)],
     [mean |-> <<R(1)>>,
      precision |-> [ndim |-> 2, val |-> <<<<R(2), R(0), R(0)>>, <<R(0), R(2), R(0)>>,
                                            <<R(0), R(0), R(2)>>>>],
      prior_counts |-> R(2)],
     [mean |-> <<R(1), R(0)>>,
      precision |-> [ndim |-> 2, val |-> <<<<R(2), R(0), R(0)>>, <<R(0), R(2), R(0)>>>>],
      prior_counts |-> R(2)]}

\* vectors to assign: a valid one, one where the log-normalizer is not defined
\* (lgamma(0); the logarithm of a negative number, for the last one that of the
\* determinant of a matrix that is not positive definite) and one of a wrong size
AnyValue(family, n) ==
    {AssignValue(family, n)}
        \cup CASE family = "dirichlet" -> {Vec([i \in 1..n |-> R(IF i = 1 THEN -1 ELSE 1)])}
               [] family = "normalgamma" -> {<<R(0), R(1), R(1), R(2)>>, <<R(3), R(1), R(1)>>}
               [] OTHER ->
                      {<<R(0), R(1), R(1), R(2)>>,
                       <<R(1), R(2), R(2), R(1), R(0), R(0), R(1), R(2)>>,
                       Vec([i \in 1..10 |-> R(1)])}

\* d = dirichlet(...), normalgamma(...) or normalwishart(...), of any shapes
ConstructAny ==
    /\ dens = <<>>
    /\ \E family \in Families :
         /\ \E hyper \in Hyper(family)
                          \cup (IF family = "normalwishart" THEN MisshapenHyper ELSE {}) :
              /\ last' = [op |-> family, args |-> hyper, pre |-> Store]
              /\ out' = NoResult(family, ConstructErr(family, hyper))
              /\ IF ConstructErr(family, hyper) = "None"
                 THEN \E r \in {Constructed(Store, family, hyper)} :
                          /\ heap' = r.heap
                          /\ dens' = r.dens
                          /\ made' = Append(made, [family |-> family, hyper |-> hyper,
                                                   fresh |-> TRUE])
                 ELSE UNCHANGED <<heap, dens, made>>
    /\ UNCHANGED <<mix, calls, ops, pc, seen>>

\* d.natural_params = ta.Variable(value, requires_grad=requires_grad), any value
AssignAny ==
    /\ ops < MaxOps
    /\ \E d \in 1..Len(dens), requires_grad \in BOOLEAN :
         \E value \in AnyValue(made[d].family, Len(NaturalParamsOf(Store, d))) :
           \E st \in {Alloc(Store, IF requires_grad
                                    THEN NewLeaf(value)
                                    ELSE NewNode(value, NoneRef))} :
             \E r \in {Assigned(st, d, Len(heap) + 1)} :
               /\ heap' = r.heap
               /\ dens' = r.dens
               /\ out' = NoResult("assign",
                                  _exp_stats_and_log_normErr(st.heap, Len(heap) + 1,
                                                             dens[d].log_norm_fn))
               /\ made' = [made EXCEPT ![d].fresh = @ /\ r.dens = dens]
               /\ last' = [op |-> "assign",
                           args |-> [d |-> d, value |-> value,
                                     requires_grad |-> requires_grad],
                           pre |-> Store]
    /\ ops' = ops + 1
    /\ UNCHANGED <<mix, calls, pc, seen>>

NextFaults == ConstructAny \/ AssignAny

SpecFaults == InitDensity /\ [][NextFaults]_vars

(***************************************************************************)
(* The assignment to natural_params, statement by statement, with a        *)
(* consumer that reads the density's three properties between any two of   *)
(* them.  The density is density 1; last.args holds the frame of the       *)
(* setter: the Variable assigned and the log_norm it evaluated.            *)
(***************************************************************************)
InitSetter ==
    \E family \in Families : \E hyper \in Hyper(family) :
        /\ ConstructErr(family, hyper) = "None"
        /\ \E r \in {Constructed(EmptyStore, family, hyper)} :
               /\ heap = r.heap
               /\ dens = r.dens
        /\ made = <<[family |-> family, hyper |-> hyper, fresh |-> TRUE]>>
        /\ mix = NoMixture
        /\ out = NoResult(family, "None")
        /\ last = [op |-> family, args |-> [value |-> NoneRef, log_norm |-> SZero],
                   pre |-> EmptyStore]
        /\ calls = <<>>
        /\ ops = 0
        /\ pc = "idle"
        /\ seen = NotSeen

\* d.natural_params = ta.Variable(value, requires_grad=True): the setter is entered
SetterCall ==
    /\ pc = "idle"
    /\ ops < MaxOps
    /\ heap' = Append(heap, NewLeaf(AssignValue(made[1].family,
                                                Len(NaturalParamsOf(Store, 1)))))
    /\ last' = [op |-> "assign", args |-> [value |-> Len(heap) + 1, log_norm |-> SZero],
                pre |-> Store]
    /\ pc' = "called"
    /\ UNCHANGED <<dens, mix, out, calls, ops, made, seen>>

\* d.natural_params = d.natural_params: the setter is entered with the Variable held
SetterCallSame ==
    /\ pc = "idle"
    /\ ops < MaxOps
    /\ last' = [op |-> "reassign",
                args |-> [value |-> dens[1].natural_params, log_norm |-> SZero],
                pre |-> Store]
    /\ pc' = "called"
    /\ UNCHANGED <<heap, dens, mix, out, calls, ops, made, seen>>

\* if natural_params.grad is not None: natural_params.grad.zero_()
SetterZeroGrad ==
    /\ pc = "called"
    /\ heap' = ZeroGrad(heap, last.args.value)
    /\ pc' = "zeroed"
    /\ UNCHANGED <<dens, mix, out, last, calls, ops, made, seen>>

\* log_norm = log_norm_fn(natural_params)
SetterLogNorm ==
    /\ pc = "zeroed"
    /\ last' = [last EXCEPT !.args.log_norm =
                    LogNormFn(dens[1].log_norm_fn, heap[last.args.value].val)]
    /\ pc' = "evaluated"
    /\ UNCHANGED <<heap, dens, mix, out, calls, ops, made, seen>>

\* ta.backward(log_norm)
SetterBackward ==
    /\ pc = "evaluated"
    /\ heap' = Backward(heap, last.args.value, dens[1].log_norm_fn)
    /\ pc' = "backward"
    /\ UNCHANGED <<dens, mix, out, last, calls, ops, made, seen>>

\* self._expected_sufficient_statistics = natural_params.grad
SetterStoreStats ==
    /\ pc = "backward"
    /\ dens' = [dens EXCEPT ![1].expected_sufficient_statistics =
                    IF heap[last.args.value].hasGrad THEN last.args.value ELSE NoneRef]
    /\ pc' = "stats"
    /\ UNCHANGED <<heap, mix, out, last, calls, ops, made, seen>>

\* self._log_norm = log_norm
SetterStoreLogNorm ==
    /\ pc = "stats"
    /\ dens' = [dens EXCEPT ![1].log_norm = last.args.log_norm]
    /\ pc' = "log_norm"
    /\ UNCHANGED <<heap, mix, out, last, calls, ops, made, seen>>

\* self._natural_params = value: the setter returns
SetterStoreParams ==
    /\ pc = "log_norm"
    /\ dens' = [dens EXCEPT ![1].natural_params = last.args.value]
    /\ made' = [made EXCEPT ![1].fresh = FALSE]
    /\ out' = NoResult(last.op, "None")
    /\ ops' = ops + 1
    /\ pc' = "idle"
    /\ UNCHANGED <<heap, mix, last, calls, seen>>

\* a consumer reads d.natural_params, d.log_norm and
\* d.expected_sufficient_statistics
Read ==
    /\ seen' = [natural_params |-> NaturalParamsOf(Store, 1),
                log_norm |-> LogNormOf(Store, 1),
                expected_sufficient_statistics |-> ExpectedStatsOf(Store, 1)]
    /\ UNCHANGED <<heap, dens, mix, out, last, calls, ops, made, pc>>

NextSetter ==
    \/ SetterCall
    \/ SetterCallSame
    \/ SetterZeroGrad
    \/ SetterLogNorm
    \/ SetterBackward
    \/ SetterStoreStats
    \/ SetterStoreLogNorm
    \/ SetterStoreParams
    \/ Read

SpecSetter == InitSetter /\ [][NextSetter]_vars

\* the statements of the setter, run to the end, are the setter
SetterStepsAreTheSetter ==
    (pc = "idle" /\ last.op \in {"assign", "reassign"}) =>
        Store = SetNaturalParams([heap |-> IF last.op = "assign"
                                           THEN Append(last.pre.heap,
                                                       NewLeaf(heap[last.args.value].val))
                                           ELSE last.pre.heap,
                                  dens |-> last.pre.dens],
                                 1, last.args.value)

(***************************************************************************)
(* Inference on its own: exp_llh and expected_natural_params of a mixture  *)
(* with a given cached matrix, on a batch of observations.                 *)
(***************************************************************************)
\* cached matrices of one, two and three components: each entry is a logarithm
InferMatrices ==
    {<<<<Log(R(2)), Log(R(3)), Log(Half), Log(R(1)), Log(Half)>>>>,
     <<<<Log(R(2)), Log(R(3)), Log(Half), Log(R(1)), Log(Half)>>,
       <<Log(Half), Log(R(2)), Log(R(3)), Log(R(2)), Log(Q(1, 3))>>>>,
     <<<<Log(R(1)), Log(R(1)), Log(R(1)), Log(R(1)), Log(Q(1, 4))>>,
       <<Log(R(1)), Log(R(1)), Log(R(1)), Log(R(1)), Log(Q(3, 4))>>>>,
     <<<<Log(R(2)), Log(R(3)), Log(Half), Log(R(1)), Log(Half)>>,
       <<Log(Half), Log(R(2)), Log(R(3)), Log(R(2)), Log(Q(1, 3))>>,
       <<Log(R(3)), Log(Half), Log(R(1)), Log(Q(1, 5)), Log(R(2))>>>>}

\* batches of 1 to MaxObs observations of dimension 1
RECURSIVE Batches(_)
Batches(n) ==
    IF n = 0
    THEN {<<>>}
    ELSE {Append(X, <<x>>) : X \in Batches(n - 1), x \in {-1, 0, 2}}
Data == UNION {Batches(n) : n \in 1..MaxObs}

\* the model and the batch are drawn once; last.args[1] is the batch
InitInfer ==
    \E matrix \in InferMatrices, X \in Data :
        /\ last = [op |-> "none", args |-> <<X, FALSE>>]
        /\ mix = [prior_weights |-> NoneRef, posterior_weights |-> NoneRef,
                  components |-> Vec([k \in 1..Len(matrix) |->
                                         [prior |-> NoneRef, posterior |-> NoneRef]]),
                  np_params_matrix |-> matrix]
        /\ heap = <<>>
        /\ dens = <<>>
        /\ out = [op |-> "none", exp_llh |-> <<>>, resps |-> <<>>, acc_stats |-> <<>>]
        /\ calls = <<>>
        /\ ops = 0
        /\ made = <<>>
        /\ pc = "idle"
        /\ seen = NotSeen

ExpLlh ==
    /\ \E X \in {last.args[1]}, accumulate \in BOOLEAN :
         \E r \in {exp_llh(mix, X, accumulate)} :
            /\ out' = [op |-> "exp_llh", exp_llh |-> r.exp_llh, resps |-> r.resps,
                       acc_stats |-> r.acc_stats]
            /\ last' = [op |-> "exp_llh", args |-> <<X, accumulate>>]
    /\ UNCHANGED <<heap, dens, mix, calls, ops, made, pc, seen>>

ExpectedNaturalParams ==
    /\ \E mean \in {last.args[1]} :
         \E var \in {Vec([n \in 1..Len(mean) |-> <<1>>])} :
           \E r \in {expected_natural_params(mix, mean, var)} :
              /\ out' = [op |-> "expected_natural_params", exp_llh |-> r.exp_llh,
                         resps |-> r.resps, acc_stats |-> r.acc_stats]
              /\ last' = [op |-> "expected_natural_params", args |-> <<mean, var>>]
    /\ UNCHANGED <<heap, dens, mix, calls, ops, made, pc, seen>>

NextInfer == ExpLlh \/ ExpectedNaturalParams

SpecInfer == InitInfer /\ [][NextInfer]_vars

(***************************************************************************)
(* Properties.                                                             *)
(***************************************************************************)
\* the cached values of density d are those of its function at its parameters
CachedValuesCurrent(st, d) ==
    /\ LogNormOf(st, d) = LogNormFn(st.dens[d].log_norm_fn, NaturalParamsOf(st, d))
    /\ HasStats(st, d)
    /\ ExpectedStatsOf(st, d) =
           GradLogNormFn(st.dens[d].log_norm_fn, NaturalParamsOf(st, d))

\* the densities the mixture the caller holds is made of
MixtureDensities ==
    {mix.prior_weights, mix.posterior_weights}
        \cup {mix.components[i].prior : i \in 1..Len(mix.components)}
        \cup {mix.components[i].posterior : i \in 1..Len(mix.components)}

\* C1: for every density, after its construction and after any assignment to its
\* natural_params, log_norm is log_norm_fn(natural_params) and
\* expected_sufficient_statistics is the gradient of log_norm_fn there (here: for
\* every density of the mixture the caller holds, between any two operations).
C1_CachedValuesCurrent ==
    \A d \in MixtureDensities : CachedValuesCurrent(Store, d)

\* C5: after natural_grad_update(acc_stats, scale, lrate) returns, the posterior
\* weights are old + lrate * (prior + scale * mass - old), and component i was
\* updated exactly once, with row i of the component statistics, scale and lrate.
C5_NaturalGradUpdate ==
    (last.op = "natural_grad_update" /\ out.err = "None") =>
        LET old == NaturalParamsOf(last.pre, last.pre.mix.posterior_weights)
            prior == NaturalParamsOf(last.pre, last.pre.mix.prior_weights)
            mass == last.args.acc_stats[2]
            new == NaturalParamsOf(Store, mix.posterior_weights)
            m(i) == mass[IF Len(mass) = 1 THEN 1 ELSE i]
        IN  /\ Len(new) = Len(old)
            /\ \A i \in 1..Len(old) :
                   new[i] = RAdd(old[i],
                                 RMul(last.args.lrate,
                                      RSub(RAdd(prior[i], RMul(last.args.scale, m(i))),
                                           old[i])))
            /\ Len(calls) = Len(mix.components)
            /\ \A i \in 1..Len(calls) :
                   calls[i] = [component |-> i,
                               acc_stats |-> last.args.acc_stats[1][i],
                               scale |-> last.args.scale,
                               lrate |-> last.args.lrate]

\* a returned update that moved the posterior weights of a two-component mixture
C5_Witness ==
    /\ last.op = "natural_grad_update"
    /\ out.err = "None"
    /\ last.args.lrate = Half
    /\ Len(mix.components) = 2
    /\ NaturalParamsOf(Store, mix.posterior_weights)
           # NaturalParamsOf(last.pre, last.pre.mix.posterior_weights)

\* C6: whenever inference can run, row i of the cached matrix is component i's
\* posterior expected sufficient statistics followed by entry i of the posterior
\* weights' expected sufficient statistics.
C6_MatrixCurrent ==
    /\ PrepareErr(Store, mix.components, mix.posterior_weights) = "None"
    /\ mix.np_params_matrix = _prepare(Store, mix.components, mix.posterior_weights)

\* C7: split() on a mixture of K components returns a mixture of 2K components,
\* and the mixture has as many prior and posterior weight parameters as components.
C7_SplitDoubles ==
    /\ last.op = "split" =>
           /\ out.err = "None"
           /\ Len(out.mixture.components) = 2 * Len(mix.components)
           /\ Len(NaturalParamsOf(Store, out.mixture.prior_weights))
                  = Len(out.mixture.components)
           /\ Len(NaturalParamsOf(Store, out.mixture.posterior_weights))
                  = Len(out.mixture.components)
    /\ Len(NaturalParamsOf(Store, mix.prior_weights)) = Len(mix.components)
    /\ Len(NaturalParamsOf(Store, mix.posterior_weights)) = Len(mix.components)

\* the two weight densities split() builds: the first two after the store it ran on
NewPriorWeights == Len(last.pre.dens) + 1
NewPosteriorWeights == Len(last.pre.dens) + 2

\* C10 as stated: each old weight parameter gives a pair of new natural
\* parameters equal to half of it plus 1.
C10_HalfPlusOne ==
    last.op = "split" =>
        LET old == NaturalParamsOf(last.pre, last.pre.mix.prior_weights)
            new == NaturalParamsOf(Store, NewPriorWeights)
        IN  \A j \in 1..Len(new) :
                new[j] = RAdd(RMul(Half, old[(j + 1) \div 2]), R(1))

\* C10 amended: each old weight parameter (prior and posterior alike) gives a pair
\* of new natural parameters equal to half of it; the half plus 1 is the count
\* handed to the Dirichlet constructor, which subtracts the 1 again.
C10_Half ==
    last.op = "split" =>
        \A w \in {<<last.pre.mix.prior_weights, NewPriorWeights>>,
                  <<last.pre.mix.posterior_weights, NewPosteriorWeights>>} :
            LET old == NaturalParamsOf(last.pre, w[1])
                new == NaturalParamsOf(Store, w[2])
            IN  /\ Len(new) = 2 * Len(old)
                /\ \A j \in 1..Len(new) : new[j] = RMul(Half, old[(j + 1) \div 2])

\* a split of a mixture whose posterior weights have moved away from the prior
C10_Witness ==
    /\ last.op = "split"
    /\ NaturalParamsOf(Store, NewPosteriorWeights)
           # NaturalParamsOf(Store, NewPriorWeights)
    /\ \E j \in 1..Len(NaturalParamsOf(Store, NewPriorWeights)) :
           NaturalParamsOf(Store, NewPriorWeights)[j] = Half

\* C3: kl_divergence(posterior, prior) is log_norm(prior) - log_norm(posterior) -
\* expected_sufficient_statistics(posterior) . (natural_params(prior) -
\* natural_params(posterior)), for every pair of densities of one family.
C3_KlDivergence ==
    (last.op = "kl_divergence" /\ out.err = "None") =>
        LET posterior == last.args.model1
            prior == last.args.model2
            diff == BSub(NaturalParamsOf(Store, prior), NaturalParamsOf(Store, posterior))
            stats == ExpectedStatsOf(Store, posterior)
        IN  out.kl = SSub(SSub(LogNormOf(Store, prior), LogNormOf(Store, posterior)),
                          SSum(Vec([i \in 1..Len(stats) |-> SScale(diff[i], stats[i])])))

\* a divergence between two densities with different parameters, which is not 0
C3_Witness ==
    /\ last.op = "kl_divergence"
    /\ out.err = "None"
    /\ last.args.model1 # last.args.model2
    /\ NaturalParamsOf(Store, last.args.model1) # NaturalParamsOf(Store, last.args.model2)
    /\ out.kl # SZero

\* the two densities are as their constructor built them, from the same
\* hyperparameters
SameHyperparameters(model1, model2) ==
    /\ made[model1].fresh
    /\ made[model2].fresh
    /\ made[model1].hyper = made[model2].hyper

\* C4: kl_divergence returns 0 for two densities built by the same constructor from
\* the same hyperparameters, and for any density compared with itself.
C4_KlZero ==
    (/\ last.op = "kl_divergence"
     /\ \/ last.args.model1 = last.args.model2
        \/ SameHyperparameters(last.args.model1, last.args.model2)) =>
        /\ out.err = "None"
        /\ out.kl = SZero

\* two distinct Normal-Wishart densities of the same hyperparameters were compared
C4_Witness ==
    /\ last.op = "kl_divergence"
    /\ last.args.model1 # last.args.model2
    /\ made[1].family = "normalwishart"
    /\ SameHyperparameters(1, 2)
    /\ LogNormOf(Store, 1) # SZero
    /\ out.kl = SZero

\* C9: a Dirichlet density built from prior_counts has natural_params equal to
\* prior_counts - 1, element by element and of the same length.
C9_DirichletRoundTrip ==
    (last.op = "dirichlet" /\ out.err = "None") =>
        LET natural_params == NaturalParamsOf(Store, Len(dens))
            prior_counts == last.args.prior_counts
        IN  /\ Len(natural_params) = Len(prior_counts)
            /\ \A i \in 1..Len(prior_counts) :
                   natural_params[i] = RSub(prior_counts[i], R(1))

\* prior_counts = [1, 1, 1] gave natural_params = [0, 0, 0]
C9_Witness ==
    /\ last.op = "dirichlet"
    /\ last.args.prior_counts = <<R(1), R(1), R(1)>>
    /\ NaturalParamsOf(Store, Len(dens)) = <<R(0), R(0), R(0)>>

\* C2: a consumer reading natural_params, log_norm and
\* expected_sufficient_statistics at any point of an assignment reads three values
\* of one parameter vector: log_norm and the statistics are those of the
\* natural_params it read, the old ones or the new ones.
C2_NeverHalfUpdated ==
    seen # NotSeen =>
        /\ seen.log_norm = LogNormFn(dens[1].log_norm_fn, seen.natural_params)
        /\ seen.expected_sufficient_statistics =
               GradLogNormFn(dens[1].log_norm_fn, seen.natural_params)

\* C8: the responsibilities computed in exp_llh and in expected_natural_params sum
\* to 1 across the components for every observation, so the accumulated
\* responsibility mass summed over the components is the number of observations.
C8_ResponsibilitiesSumToOne ==
    out.op \in {"exp_llh", "expected_natural_params"} =>
        /\ Len(out.resps) = Len(last.args[1])
        /\ \A n \in 1..Len(out.resps) :
               /\ Len(out.resps[n]) = Len(mix.components)
               /\ VSum(out.resps[n]) = R(1)
        /\ out.acc_stats # <<>> => VSum(out.acc_stats[2]) = R(Len(last.args[1]))

\* two observations shared unevenly between components, with accumulated statistics
C8_Witness ==
    /\ out.op = "exp_llh"
    /\ Len(out.resps) = 2
    /\ Len(mix.components) = 3
    /\ out.acc_stats # <<>>
    /\ out.resps[1] # out.resps[2]
    /\ \E k \in 1..3 : RLess(R(0), out.resps[1][k]) /\ RLess(out.resps[1][k], Q(1, 3))

\* C11: normalwishart raises, and builds no density, whenever the shapes of its
\* hyperparameters are inconsistent: every precision that is no matrix, that is
\* not square, or whose side is not the length of the mean, is rejected.
C11_InconsistentRejected ==
    (/\ last.op = "normalwishart"
     /\ \/ last.args.precision.ndim # 2
        \/ Len(last.args.precision.val) # Len(last.args.mean)
        \/ Len(last.args.precision.val[1]) # Len(last.args.mean)) =>
        /\ out.err # "None"
        /\ dens = last.pre.dens

\* C12: a value at which the log-normalizer or its gradient is not defined is never
\* stored: the assignment raises, and no density holds a log_norm or an expected
\* sufficient statistic that is no number.
C12_IllDefinedSurfaced ==
    \A d \in 1..Len(dens) :
        /\ ~IllDefined(LogNormOf(Store, d))
        /\ HasStats(Store, d) =>
               \A i \in 1..Len(ExpectedStatsOf(Store, d)) :
                   ~IllDefined(ExpectedStatsOf(Store, d)[i])

\* C20: when the assignment to natural_params raises, the density keeps the
\* natural_params, log_norm and expected_sufficient_statistics it had, and they are
\* still those of its function at its parameters.
C20_FailedAssignmentKeepsState ==
    (last.op = "assign" /\ out.err # "None") =>
        LET d == last.args.d
        IN  /\ dens[d] = last.pre.dens[d]
            /\ NaturalParamsOf(Store, d) = NaturalParamsOf(last.pre, d)
            /\ LogNormOf(Store, d) = LogNormOf(last.pre, d)
            /\ ExpectedStatsOf(Store, d) = ExpectedStatsOf(last.pre, d)
            /\ CachedValuesCurrent(Store, d)

\* an assignment of a vector of a wrong size to a Normal-Wishart density that had
\* been assigned to before raised
C20_Witness ==
    /\ last.op = "assign"
    /\ out.err = "RuntimeError"
    /\ last.args.requires_grad
    /\ made[last.args.d].family = "normalwishart"
    /\ ~made[last.args.d].fresh

\* C13: exp_llh raises a shape error exactly when the observations have not the
\* dimension of the components (whose statistics, with the column of ones, are the
\* columns of the cached matrix); natural_grad_update raises nothing of its own
\* and, when it returns, has applied exactly one step: every component was updated
\* once, in order, and every posterior holds a new Variable, whatever the learning
\* rate and whether or not the step changes anything.
C13_ShapeErrorAndOneStep ==
    /\ last.op = "exp_llh" =>
           /\ out.err \in {"None", "RuntimeError"}
           /\ out.err = "RuntimeError" <=>
                  Len(last.args.X[1])
                      # Len(NaturalParamsOf(Store, mix.components[1].posterior)) \div 4
           /\ out.err = "RuntimeError" <=>
                  4 * Len(last.args.X[1]) + 1 # Len(mix.np_params_matrix[1])
           /\ out.err = "None" =>
                  /\ Len(out.per_component_exp_llh) = Len(last.args.X)
                  /\ Len(out.per_component_exp_llh[1]) = Len(mix.components)
    /\ last.op = "natural_grad_update" =>
           out.err \in {"None", "IndexError", "RuntimeError"}
    /\ (last.op = "natural_grad_update" /\ out.err = "None") =>
           /\ Len(calls) = Len(mix.components)
           /\ \A i \in 1..Len(calls) : calls[i].component = i
           /\ Len(heap) = Len(last.pre.heap) + Len(mix.components) + 1
           /\ \A d \in {mix.posterior_weights}
                        \cup {mix.components[i].posterior : i \in 1..Len(mix.components)} :
                  /\ dens[d].natural_params > Len(last.pre.heap)
                  /\ dens[d].natural_params # last.pre.dens[d].natural_params

\* after an update that returned, an observation of 2 dimensions was refused by a
\* mixture of two components of dimension 1
C13_Witness ==
    /\ last.op = "exp_llh"
    /\ out.err = "RuntimeError"
    /\ Len(last.args.X[1]) = 2
    /\ Len(mix.components) = 2
    /\ Len(calls) = 2
    /\ NaturalParamsOf(Store, mix.posterior_weights)
           # NaturalParamsOf(Store, mix.prior_weights)

\* C14: split() leaves the mixture it is called on as it was: the natural
\* parameters, the log_norm and the expected sufficient statistics of its prior and
\* posterior weights and of its components, its list of components and its cached
\* matrix.
C14_SplitLeavesOriginal ==
    last.op = "split" =>
        LET View(st, d) ==
                <<st.dens[d], NaturalParamsOf(st, d), LogNormOf(st, d),
                  IF HasStats(st, d) THEN ExpectedStatsOf(st, d) ELSE <<>>>>
        IN  /\ mix = last.pre.mix
            /\ \A d \in MixtureDensities : View(Store, d) = View(last.pre, d)

\* C15: kl_div_posterior_prior() returns the divergence of the posterior weights
\* from the prior weights plus, for every component, that of its posterior from
\* its prior: log_norm(prior) - log_norm(posterior) - statistics(posterior) .
\* (natural_params(prior) - natural_params(posterior)) for each pair.
C15_KlDivPosteriorPrior ==
    (last.op = "kl_div_posterior_prior" /\ out.err = "None") =>
        LET KL(posterior, prior) ==
                SSub(SSub(LogNormOf(Store, prior), LogNormOf(Store, posterior)),
                     SDot(ExpectedStatsOf(Store, posterior),
                          BSub(NaturalParamsOf(Store, prior),
                               NaturalParamsOf(Store, posterior))))
        IN  out.kl = SAdd(KL(mix.posterior_weights, mix.prior_weights),
                          SSum(Vec([i \in 1..Len(mix.components) |->
                                       KL(mix.components[i].posterior,
                                          mix.components[i].prior)])))

\* the divergence of a mixture of two components whose posteriors have moved
C15_Witness ==
    /\ last.op = "kl_div_posterior_prior"
    /\ out.err = "None"
    /\ out.kl # SZero
    /\ Len(mix.components) = 2
    /\ NaturalParamsOf(Store, mix.components[2].posterior)
           # NaturalParamsOf(Store, mix.components[2].prior)
    /\ NaturalParamsOf(Store, mix.posterior_weights)
           # NaturalParamsOf(Store, mix.prior_weights)

\* C18: natural_grad_update leaves the prior weights (natural parameters,
\* log_norm, expected sufficient statistics), the prior of every component, the
\* list of components and the acc_stats it was passed as they were.
C18_UpdateLeavesPriors ==
    last.op = "natural_grad_update" =>
        LET View(st, d) ==
                <<st.dens[d], NaturalParamsOf(st, d), LogNormOf(st, d),
                  IF HasStats(st, d) THEN ExpectedStatsOf(st, d) ELSE <<>>>>
        IN  /\ mix.prior_weights = last.pre.mix.prior_weights
            /\ View(Store, mix.prior_weights) = View(last.pre, mix.prior_weights)
            /\ mix.components = last.pre.mix.components
            /\ \A i \in 1..Len(mix.components) :
                   View(Store, mix.components[i].prior)
                       = View(last.pre, mix.components[i].prior)
            /\ out.acc_stats = last.args.acc_stats

\* an update that returned and moved the posteriors of a two-component mixture
C18_Witness ==
    /\ last.op = "natural_grad_update"
    /\ out.err = "None"
    /\ Len(mix.components) = 2
    /\ NaturalParamsOf(Store, mix.posterior_weights)
           # NaturalParamsOf(last.pre, mix.posterior_weights)
    /\ NaturalParamsOf(Store, mix.components[1].posterior)
           # NaturalParamsOf(last.pre, mix.components[1].posterior)
    /\ mix.np_params_matrix # last.pre.mix.np_params_matrix

\* C19: a natural_grad_update that raises leaves the mixture as it was: no
\* posterior of a component and not the posterior of the weights was replaced, and
\* the cached matrix, if it matched the posteriors before, still does.
C19_FailedUpdateLeavesMixture ==
    (last.op = "natural_grad_update" /\ out.err # "None") =>
        /\ mix = last.pre.mix
        /\ \A d \in {mix.posterior_weights}
                     \cup {mix.components[i].posterior : i \in 1..Len(mix.components)} :
               /\ dens[d] = last.pre.dens[d]
               /\ NaturalParamsOf(Store, d) = NaturalParamsOf(last.pre, d)
        /\ (/\ PrepareErr(last.pre, mix.components, mix.posterior_weights) = "None"
            /\ mix.np_params_matrix
                   = _prepare(last.pre, mix.components, mix.posterior_weights)) =>
               /\ PrepareErr(Store, mix.components, mix.posterior_weights) = "None"
               /\ mix.np_params_matrix
                      = _prepare(Store, mix.components, mix.posterior_weights)

\* C16: exp_llh returns accumulated statistics exactly when accumulate is set;
\* they are the pair of transpose(responsibilities) times the statistics without
\* their last column of ones, one row per component, and of the sums of the
\* responsibilities over the observations, one entry per component; the
\* responsibilities are exp(per-component value - log-sum-exp), the log-sum-exp
\* being the returned value before the log base measure d/2 log(2 pi) was
\* subtracted from it.
C16_AccumulatedStatistics ==
    out.op = "exp_llh" =>
        \A T \in {sufficient_statistics(last.args[1])} :
        \A llh \in {PerComponentExpLlh(T, mix.np_params_matrix)} :
        \A lse \in {Vec([n \in 1..Len(T) |->
                            SAdd(out.exp_llh[n],
                                 SScale(RMul(Half, R(Len(last.args[1][1]))), Log2Pi))])} :
        \A resps \in {Vec([n \in 1..Len(T) |->
                              Vec([k \in 1..Len(mix.components) |->
                                      Exp(SSub(llh[n][k], lse[n]))])])} :
            /\ out.acc_stats = <<>> <=> ~last.args[2]
            /\ Len(out.exp_llh) = Len(last.args[1])
            /\ \A n \in 1..Len(T) : <<"log2pi", R(1)>> \notin SAtoms(lse[n])
            /\ out.resps = resps
            /\ last.args[2] =>
                   /\ Len(out.acc_stats) = 2
                   /\ Len(out.acc_stats[1]) = Len(mix.components)
                   /\ Len(out.acc_stats[2]) = Len(mix.components)
                   /\ \A k \in 1..Len(mix.components) :
                          /\ Len(out.acc_stats[1][k]) = Len(T[1]) - 1
                          /\ \A j \in 1..(Len(T[1]) - 1) :
                                 out.acc_stats[1][k][j]
                                     = VSum(Vec([n \in 1..Len(T) |->
                                                    RMul(resps[n][k], R(T[n][j]))]))
                          /\ out.acc_stats[2][k]
                                 = VSum(Vec([n \in 1..Len(T) |-> resps[n][k]]))

\* statistics accumulated over two different observations for two components
\* that share them unevenly
C16_Witness ==
    /\ out.op = "exp_llh"
    /\ last.args[2]
    /\ Len(last.args[1]) = 2
    /\ last.args[1][1] # last.args[1][2]
    /\ Len(mix.components) = 2
    /\ out.acc_stats # <<>>
    /\ out.acc_stats[1][1] # out.acc_stats[1][2]
    /\ out.acc_stats[2][1] # out.acc_stats[2][2]

\* C17: in the log-sum-exp of every row, each value given to exp is the entry
\* minus the maximum of the row: every exponent is <= 0 (its exponential is
\* <= 1), one of them is 0, and the sum inside the logarithm lies between 1 and
\* the number of components; the result is the maximum plus the logarithm of
\* that sum.
C17_LogSumExpStable ==
    out.op \in {"exp_llh", "expected_natural_params"} =>
        \A T \in {IF out.op = "exp_llh"
                    THEN sufficient_statistics(last.args[1])
                    ELSE Vec([n \in 1..Len(last.args[1]) |->
                                 Append(ComponentSufficientStatisticsFromMeanVar(
                                            last.args[1], last.args[2])[n], 1)])} :
        \A llh \in {PerComponentExpLlh(T, mix.np_params_matrix)} :
        \A n \in 1..Len(llh) :
        \A s \in {RowMax(llh[n])} :
        \A exps \in {Vec([k \in 1..Len(llh[n]) |-> Exp(SSub(llh[n][k], s))])} :
            /\ Len(exps) = Len(mix.components)
            /\ \A k \in 1..Len(exps) : RLess(R(0), exps[k]) /\ RLeq(exps[k], R(1))
            /\ \E k \in 1..Len(exps) : SSub(llh[n][k], s) = SZero /\ exps[k] = R(1)
            /\ RLeq(R(1), VSum(exps))
            /\ RLeq(VSum(exps), R(Len(mix.components)))
            /\ _logsumexp(llh)[n] = SAdd(s, Log(VSum(exps)))
            /\ out.exp_llh[n]
                   = IF out.op = "exp_llh"
                     THEN SSub(SAdd(s, Log(VSum(exps))),
                               SScale(RMul(Half, R(Len(last.args[1][1]))), Log2Pi))
                     ELSE SAdd(s, Log(VSum(exps)))

\* a row of three different entries, whose sum of exponentials lies strictly
\* between 1 and 3
C17_Witness ==
    /\ out.op = "exp_llh"
    /\ Len(mix.components) = 3
    /\ \E n \in 1..Len(out.resps) :
           /\ out.resps[n][1] # out.resps[n][2]
           /\ out.resps[n][2] # out.resps[n][3]
           /\ out.resps[n][1] # out.resps[n][3]
           /\ \A k \in 1..3 : RLess(out.resps[n][k], R(1))

\* C21: split() returns a mixture whose weight parameters and components are
\* aligned: for the i-th old component, the new weight parameters at the two
\* consecutive positions of the i-th pair are half the i-th old weight parameter
\* (prior and posterior alike), and the new components at these positions are
\* the two sub-components the i-th old component's split() returned, in order.
C21_SplitAligned ==
    last.op = "split" =>
        /\ out.err = "None"
        /\ Len(out.mixture.components) = 2 * Len(last.pre.mix.components)
        /\ \A i \in 1..Len(last.pre.mix.components) : \A h \in {1, 2} :
               /\ out.mixture.components[2 * (i - 1) + h]
                      = ComponentSplit(last.pre.mix.components[i])[h]
               /\ NaturalParamsOf(Store, out.mixture.prior_weights)[2 * (i - 1) + h]
                      = RMul(Half, NaturalParamsOf(last.pre,
                                                   last.pre.mix.prior_weights)[i])
               /\ NaturalParamsOf(Store, out.mixture.posterior_weights)[2 * (i - 1) + h]
                      = RMul(Half, NaturalParamsOf(last.pre,
                                                   last.pre.mix.posterior_weights)[i])

\* C22: for the weights' step of a natural_grad_update that returns: with lrate 0
\* the posterior natural parameters are those before the call; with lrate 1 they
\* are prior + scale * mass whatever they were before, so that they depend on the
\* prior and on the statistics of this call only, and an update with lrate 1 of a
\* posterior that already is prior + scale * mass leaves the parameters as they
\* are.
C22_WeightsStepAtZeroAndOne ==
    (last.op = "natural_grad_update" /\ out.err = "None") =>
        \A old \in {NaturalParamsOf(last.pre, mix.posterior_weights)} :
        \A new \in {NaturalParamsOf(Store, mix.posterior_weights)} :
        \A target \in {Vec([i \in 1..Len(mix.components) |->
                               RAdd(NaturalParamsOf(Store, mix.prior_weights)[i],
                                    RMul(last.args.scale,
                                         last.args.acc_stats[2][
                                             IF Len(last.args.acc_stats[2]) = 1
                                             THEN 1 ELSE i]))])} :
            /\ last.args.lrate = R(0) => new = old
            /\ last.args.lrate = R(1) => new = target
            /\ (last.args.lrate = R(1) /\ old = target) => new = old
            /\ last.args.lrate = R(1) =>
                   NaturalGradStep(NaturalParamsOf(Store, mix.prior_weights), new,
                                   last.args.acc_stats[2], last.args.scale, R(1)) = new

\* an update with lrate 1 repeated with the same statistics, on a posterior that
\* the first of the two had moved away from the prior
C22_Witness ==
    /\ last.op = "natural_grad_update"
    /\ out.err = "None"
    /\ last.args.lrate = R(1)
    /\ Len(mix.components) = 2
    /\ last.pre.mix.posterior_weights = mix.posterior_weights
    /\ NaturalParamsOf(Store, mix.posterior_weights)
           = NaturalParamsOf(last.pre, mix.posterior_weights)
    /\ NaturalParamsOf(Store, mix.posterior_weights)
           # NaturalParamsOf(Store, mix.prior_weights)
    /\ dens[mix.posterior_weights].natural_params
           # last.pre.dens[mix.posterior_weights].natural_params

=============================================================================
